---- MODULE Spec2Model ----
(***************************************************************************)
(* Global Beverage Corporation Exchange (gbce-core).                       *)
(*                                                                         *)
(* State machine of one GlobalBeverageCorpExchange: the heap of Stock      *)
(* objects, the exchange's symbol registry (_stocks, a dict: its keys in   *)
(* the order of their first insertion), the wall clock read by             *)
(* datetime.now(), the outcome of the last API call and, per caller, the   *)
(* position inside a call that takes more than one step.                   *)
(*                                                                         *)
(* Money is an integer number of pennies.  A decimal.Decimal is its        *)
(* (sign, digits, exponent) triple, the coefficient a digit sequence of    *)
(* any length; arithmetic is done on the digits, under the default context *)
(* of 28 significant digits.  A float is the dyadic rational it holds,     *)
(* mant / 2^exp2 as float.as_integer_ratio() gives it, the numerator a     *)
(* digit sequence.                                                         *)
(***************************************************************************)
EXTENDS Integers, Sequences, FiniteSets, TLC

VARIABLES heap, stocks, now, last, pend

vars == <<heap, stocks, now, last, pend>>

(***************************************************************************)
(* Bounds of the model.                                                    *)
(***************************************************************************)
\* trades recorded over a run, all ledgers together
MaxTrades == 3
\* last clock value
MaxTime == 10
\* Stock objects constructed over a run
MaxObjects == 3

(***************************************************************************)
(* Program constants.                                                      *)
(***************************************************************************)
\* decimal.getcontext().prec, the precision of every Decimal operation
Prec == 28
\* minutes_back: int = 5
DefaultMinutesBack == 5
\* len(symbol) > 10
MaxSymbolLen == 10
\* math.log, sum, / and math.exp on doubles: the value returned is within
\* a relative 10^-FloatTolDigits of the real exp(mean(ln v))
FloatTolDigits == 12
\* the minutes from datetime.min, 0001-01-01 00:00, to clock value 0, the
\* minute the run starts in (2026-01-01 00:00)
ClockEpoch == 1065047040

(***************************************************************************)
(* Natural numbers of any size, as digit sequences (most significant       *)
(* digit first, no leading zero, <<0>> for zero).                          *)
(***************************************************************************)
Abs(n) == IF n < 0 THEN -n ELSE n

Front(s) == SubSeq(s, 1, Len(s) - 1)

Zeros(k) == [i \in 1..k |-> 0]

RECURSIVE IntDigits(_)
\* the decimal digits of a natural number
IntDigits(n) == IF n < 10 THEN <<n>> ELSE Append(IntDigits(n \div 10), n % 10)

RECURSIVE DigitsInt(_)
\* the natural number a digit sequence denotes (<<>> denotes 0)
DigitsInt(ds) == IF ds = <<>> THEN 0 ELSE 10 * DigitsInt(Front(ds)) + ds[Len(ds)]

\* leading zeros taken off
Strip(ds) ==
    LET nz == {i \in 1..Len(ds) : ds[i] # 0}
    IN IF nz = {} THEN <<0>>
       ELSE SubSeq(ds, CHOOSE i \in nz : \A j \in nz : i <= j, Len(ds))

\* b, worked out once a has been: the order in which a chain of carries is
\* evaluated
After(a, b) == IF a = a THEN b ELSE b

\* zeros put in front, up to n digits
Pad(ds, n) == Zeros(n - Len(ds)) \o ds

\* the two halves of a digit sequence
Left(ds) == SubSeq(ds, 1, Len(ds) \div 2)

Right(ds) == SubSeq(ds, Len(ds) \div 2 + 1, Len(ds))

RECURSIVE Incr(_)
\* coefficient + 1, with carry
Incr(ds) ==
    IF ds = <<>> THEN <<1>>
    ELSE IF ds[Len(ds)] < 9 THEN [ds EXCEPT ![Len(ds)] = @ + 1]
    ELSE Append(Incr(Front(ds)), 0)

RECURSIVE MulCarry(_, _, _)
\* (the number ds denotes) * n + carry, n a small natural: its last Len(ds)
\* digits and the carry out of them, the halves of ds taken in turn
MulCarry(ds, n, carry) ==
    IF ds = <<>> THEN [digits |-> <<>>, carry |-> carry]
    ELSE IF Len(ds) = 1
    THEN [digits |-> <<(ds[1] * n + carry) % 10>>, carry |-> (ds[1] * n + carry) \div 10]
    ELSE LET lo == MulCarry(Right(ds), n, carry)
             hi == MulCarry(Left(ds), n, lo.carry)
         IN After(lo, [digits |-> hi.digits \o lo.digits, carry |-> hi.carry])

\* the digits of (the number ds denotes) * n + carry
MulDigits(ds, n, carry) ==
    LET r == MulCarry(ds, n, carry)
    IN (IF r.carry = 0 THEN <<>> ELSE IntDigits(r.carry)) \o r.digits

\* a * n
BigMulSmall(a, n) == Strip(MulDigits(a, n, 0))

RECURSIVE AddCarry(_, _, _)
\* a + b + carry for a, b of one length: that many digits and the carry out
AddCarry(a, b, carry) ==
    IF a = <<>> THEN [digits |-> <<>>, carry |-> carry]
    ELSE IF Len(a) = 1
    THEN [digits |-> <<(a[1] + b[1] + carry) % 10>>, carry |-> (a[1] + b[1] + carry) \div 10]
    ELSE LET lo == AddCarry(Right(a), Right(b), carry)
             hi == AddCarry(Left(a), Left(b), lo.carry)
         IN After(lo, [digits |-> hi.digits \o lo.digits, carry |-> hi.carry])

\* a + b
BigAdd(a, b) ==
    LET n == IF Len(a) > Len(b) THEN Len(a) ELSE Len(b)
        r == AddCarry(Pad(a, n), Pad(b, n), 0)
    IN Strip(<<r.carry>> \o r.digits)

RECURSIVE SubBorrow(_, _, _)
\* a - b - borrow for a, b of one length: that many digits and the borrow out
SubBorrow(a, b, borrow) ==
    IF a = <<>> THEN [digits |-> <<>>, borrow |-> borrow]
    ELSE IF Len(a) = 1
    THEN [digits |-> <<(a[1] - b[1] - borrow + 10) % 10>>,
          borrow |-> IF a[1] - b[1] - borrow < 0 THEN 1 ELSE 0]
    ELSE LET lo == SubBorrow(Right(a), Right(b), borrow)
             hi == SubBorrow(Left(a), Left(b), lo.borrow)
         IN After(lo, [digits |-> hi.digits \o lo.digits, borrow |-> hi.borrow])

\* a - b, for a >= b
BigSub(a, b) == Strip(SubBorrow(a, Pad(b, Len(a)), 0).digits)

\* a < b
BigLess(a, b) ==
    \/ Len(a) < Len(b)
    \/ /\ Len(a) = Len(b)
       /\ \E i \in 1..Len(a) : a[i] < b[i] /\ \A j \in 1..(i - 1) : a[j] = b[j]

\* a <= b
BigLeq(a, b) == ~BigLess(b, a)

RECURSIVE BigMul(_, _)
\* a * b, b taken seven digits at a time
BigMul(a, b) ==
    LET hi == Strip(BigMul(a, SubSeq(b, 1, Len(b) - 7)) \o Zeros(7))
        lo == BigMulSmall(a, DigitsInt(SubSeq(b, Len(b) - 6, Len(b))))
    IN After(a, After(b, IF Len(b) <= 7 THEN BigMulSmall(a, DigitsInt(b))
                         ELSE After(hi, After(lo, BigAdd(hi, lo)))))

RECURSIVE BigPow(_, _)
\* a ^ n
BigPow(a, n) == IF n = 0 THEN <<1>> ELSE BigMul(BigPow(a, n - 1), a)

RECURSIVE MulPow5(_, _)
\* a * 5^k, eleven factors at a time
MulPow5(a, k) ==
    IF k = 0 THEN a
    ELSE IF k >= 11 THEN After(a, MulPow5(BigMulSmall(a, 48828125), k - 11))
    ELSE After(a, MulPow5(BigMulSmall(a, 5), k - 1))

RECURSIVE MulPow2(_, _)
\* a * 2^k, twenty factors at a time
MulPow2(a, k) ==
    IF k = 0 THEN a
    ELSE IF k >= 20 THEN After(a, MulPow2(BigMulSmall(a, 1048576), k - 20))
    ELSE After(a, MulPow2(BigMulSmall(a, 2), k - 1))

RECURSIVE DivDigits(_, _, _)
\* long division of r * 10^Len(ds) + (the number ds denotes) by a small
\* q > r: the quotient's digits (leading zeros kept) and the remainder,
\* the halves of ds taken in turn
DivDigits(ds, q, r) ==
    IF ds = <<>> THEN [quot |-> <<>>, rem |-> r]
    ELSE IF Len(ds) = 1
    THEN [quot |-> <<(10 * r + ds[1]) \div q>>, rem |-> (10 * r + ds[1]) % q]
    ELSE LET hi == DivDigits(Left(ds), q, r)
             lo == DivDigits(Right(ds), q, hi.rem)
         IN After(hi, [quot |-> hi.quot \o lo.quot, rem |-> lo.rem])

\* a \div 2
BigHalf(a) == Strip(DivDigits(a, 2, 0).quot)

(***************************************************************************)
(* decimal.Decimal                                                         *)
(***************************************************************************)
\* Decimal(n) for an int n
DecimalOfInt(n) ==
    [sign |-> IF n < 0 THEN 1 ELSE 0, digits |-> IntDigits(Abs(n)), exp |-> 0]

\* the context's rounding (ROUND_HALF_EVEN) of a coefficient of more than
\* Prec digits; inexact says that the value exceeds the digits given
RoundDigits(ds, e, inexact) ==
    LET n == Len(ds)
        kept == SubSeq(ds, 1, Prec)
        rest == inexact \/ \E i \in (Prec + 2)..n : ds[i] # 0
        up == ds[Prec + 1] > 5 \/ (ds[Prec + 1] = 5 /\ (rest \/ kept[Prec] % 2 = 1))
        inc == IF up THEN Incr(kept) ELSE kept
    IN IF Len(inc) > Prec THEN [digits |-> Front(inc), exp |-> e + (n - Prec) + 1]
       ELSE [digits |-> inc, exp |-> e + (n - Prec)]

RECURSIVE LongDivision(_, _, _, _)
\* digits of r/q after the digits ds already produced, down to exponent e,
\* until the division ends or Prec significant digits are out
LongDivision(r, q, ds, e) ==
    IF r = 0 \/ Len(ds) >= Prec THEN [digits |-> ds, exp |-> e, rem |-> r]
    ELSE LET d == (r * 10) \div q
             r2 == (r * 10) % q
         IN LongDivision(r2, q, IF ds = <<>> /\ d = 0 THEN <<>> ELSE Append(ds, d), e - 1)

\* the context's rounding of an inexact quotient of Prec digits:
\* ROUND_HALF_EVEN on the remainder
RoundHalfEven(ds, e, rem, q) ==
    LET up == 2 * rem > q \/ (2 * rem = q /\ ds[Len(ds)] % 2 = 1)
        inc == IF up THEN Incr(ds) ELSE ds
    IN IF Len(inc) > Prec THEN [digits |-> Front(inc), exp |-> e + 1]
       ELSE [digits |-> inc, exp |-> e]

\* d / Decimal(den) for an int den # 0: the quotient correctly rounded to
\* Prec significant digits; an exact quotient keeps the shortest coefficient
\* not above the ideal exponent, d's
DecDiv(d, den) ==
    LET q == Abs(den)
        ip == DivDigits(d.digits, q, 0)
        whole == IF Strip(ip.quot) = <<0>> THEN <<>> ELSE Strip(ip.quot)
        ld == LongDivision(ip.rem, q, whole, d.exp)
        r == IF Len(ld.digits) > Prec THEN RoundDigits(ld.digits, ld.exp, ld.rem # 0)
             ELSE IF ld.rem = 0 THEN [digits |-> ld.digits, exp |-> ld.exp]
             ELSE RoundHalfEven(ld.digits, ld.exp, ld.rem, q)
    IN [sign |-> IF (d.sign = 1) # (den < 0) THEN 1 ELSE 0,
        digits |-> IF r.digits = <<>> THEN <<0>> ELSE r.digits,
        exp |-> IF r.digits = <<>> THEN d.exp ELSE r.exp]

\* d * Decimal(n) for an int n: the exact product, rounded to Prec
\* significant digits when it has more
DecMul(d, n) ==
    LET prod == BigMul(d.digits, IntDigits(Abs(n)))
        r == IF Len(prod) > Prec THEN RoundDigits(prod, d.exp, FALSE)
             ELSE [digits |-> prod, exp |-> d.exp]
    IN [sign |-> IF (d.sign = 1) # (n < 0) THEN 1 ELSE 0,
        digits |-> r.digits, exp |-> r.exp]

\* Decimal('0.00')
ZeroCents == [sign |-> 0, digits |-> <<0>>, exp |-> -2]

ZeroDec == [sign |-> 0, digits |-> <<0>>, exp |-> 0]

\* a call's result: a Decimal, None, or the exception raised
OkDec(d) == [status |-> "ok", dec |-> d]

NoneResult == [status |-> "None", dec |-> ZeroDec]

InvalidOperation == [status |-> "decimal.InvalidOperation", dec |-> ZeroDec]

\* d.quantize(Decimal('0.01'), ROUND_HALF_UP): the value at exponent -2,
\* or InvalidOperation when its coefficient would need more than Prec digits
QuantizeHalfUp(d) ==
    LET n == Len(d.digits)
        keep == n + d.exp + 2
        coef == IF d.exp >= -2 THEN d.digits \o Zeros(d.exp + 2)
                ELSE IF keep < 0 THEN <<0>>
                ELSE IF d.digits[keep + 1] >= 5 THEN Incr(SubSeq(d.digits, 1, keep))
                ELSE Strip(SubSeq(d.digits, 1, keep))
    IN IF d.digits = <<0>> THEN OkDec([sign |-> d.sign, digits |-> <<0>>, exp |-> -2])
       ELSE IF keep > Prec THEN InvalidOperation
       ELSE IF Len(coef) > Prec THEN InvalidOperation
       ELSE OkDec([sign |-> d.sign, digits |-> coef, exp |-> -2])

(***************************************************************************)
(* float                                                                   *)
(***************************************************************************)
\* the float mant / 2^exp2, negated when sign = 1
Float(sign, mant, exp2) == [sign |-> sign, mant |-> mant, exp2 |-> exp2]

RECURSIVE LowestTerms(_, _)
\* mant / 2^exp2 in lowest terms
LowestTerms(mant, exp2) ==
    IF exp2 = 0 \/ mant[Len(mant)] % 2 = 1 THEN Float(0, mant, exp2)
    ELSE IF exp2 >= 20 /\ DivDigits(mant, 1048576, 0).rem = 0
    THEN LowestTerms(Strip(DivDigits(mant, 1048576, 0).quot), exp2 - 20)
    ELSE LowestTerms(BigHalf(mant), exp2 - 1)

\* the float a decimal literal denotes, the literal's value being num / den
\* with 0 <= num / den < 2: the nearest number of 53 significant bits, a tie
\* going to the even one
FloatLiteral(num, den) ==
    LET j == CHOOSE k \in 0..30 : num * 2^k >= den /\ (k = 0 \/ num * 2^(k - 1) < den)
        d == DivDigits(MulPow2(IntDigits(num), 52 + j), den, 0)
        q == Strip(d.quot)
        up == 2 * d.rem > den \/ (2 * d.rem = den /\ q[Len(q)] % 2 = 1)
    IN IF num = 0 THEN Float(0, <<0>>, 0)
       ELSE LowestTerms(IF up THEN Incr(q) ELSE q, 52 + j)

\* the float literals given as fixed_dividend_pct
Float_0_0 == FloatLiteral(0, 1)
Float_0_03 == FloatLiteral(3, 100)
Float_0_25 == FloatLiteral(25, 100)
Float_0_5 == FloatLiteral(5, 10)
Float_1_0 == FloatLiteral(1, 1)
Float_1_25 == FloatLiteral(125, 100)

\* 0 < f
FloatPositive(f) == f.sign = 0 /\ f.mant # <<0>>

\* f <= 1.0
FloatAtMostOne(f) == f.sign = 1 \/ BigLeq(f.mant, MulPow2(<<1>>, f.exp2))

\* Decimal(f): the exact value, coefficient mant * 5^exp2 at exponent -exp2
DecimalOfFloat(f) ==
    [sign |-> f.sign, digits |-> MulPow5(f.mant, f.exp2), exp |-> -f.exp2]

(***************************************************************************)
(* Stock, CommonStock, PreferredStock                                      *)
(***************************************************************************)
\* Stock.__init__: the error it raises, or "ok"
Stock_init(symbol, par_value_pennies) ==
    IF symbol = "" \/ Len(symbol) > MaxSymbolLen THEN "ValueError: Invalid symbol"
    ELSE IF par_value_pennies <= 0 THEN "ValueError: Invalid par value"
    ELSE "ok"

\* CommonStock.__init__: the error it raises, or "ok"
CommonStock_init(symbol, last_dividend_pennies, par_value_pennies) ==
    IF Stock_init(symbol, par_value_pennies) # "ok" THEN Stock_init(symbol, par_value_pennies)
    ELSE IF last_dividend_pennies < 0 THEN "ValueError: Invalid dividend"
    ELSE "ok"

\* PreferredStock.__init__: the error it raises, or "ok"; the last dividend
\* is stored as given
PreferredStock_init(symbol, last_dividend_pennies, fixed_dividend_pct, par_value_pennies) ==
    IF Stock_init(symbol, par_value_pennies) # "ok" THEN Stock_init(symbol, par_value_pennies)
    ELSE IF ~(FloatPositive(fixed_dividend_pct) /\ FloatAtMostOne(fixed_dividend_pct))
         THEN "ValueError: Invalid fixed dividend"
    ELSE "ok"

\* the object a successful constructor leaves
NewStock(kind, symbol, last_dividend_pennies, fixed_dividend_pct, par_value_pennies) ==
    [kind |-> kind,
     symbol |-> symbol,
     par_value_pennies |-> par_value_pennies,
     last_dividend_pennies |-> last_dividend_pennies,
     fixed_dividend_pct |-> fixed_dividend_pct,
     trades |-> <<>>]

\* CommonStock.dividend_yield
CommonStock_dividend_yield(s, price_pennies) ==
    IF price_pennies <= 0 THEN OkDec(ZeroCents)
    ELSE QuantizeHalfUp(DecDiv(DecMul(DecimalOfInt(s.last_dividend_pennies), 100),
                               price_pennies))

\* PreferredStock.dividend_yield
PreferredStock_dividend_yield(s, price_pennies) ==
    IF price_pennies <= 0 THEN OkDec(ZeroCents)
    ELSE LET fixed_div == DecMul(DecimalOfFloat(s.fixed_dividend_pct), s.par_value_pennies)
         IN QuantizeHalfUp(DecDiv(DecMul(fixed_div, 100), price_pennies))

\* dividend_yield, dispatched on the object's class
dividend_yield(s, price_pennies) ==
    IF s.kind = "CommonStock" THEN CommonStock_dividend_yield(s, price_pennies)
    ELSE PreferredStock_dividend_yield(s, price_pennies)

\* mutant of pe_ratio_undefined: a price of zero let through
PeUndefinedBelowZero(s, price_pennies) ==
    price_pennies < 0 \/ s.last_dividend_pennies = 0

\* the guard of Stock.pe_ratio
pe_ratio_undefined(s, price_pennies) ==
    price_pennies <= 0 \/ s.last_dividend_pennies = 0

\* Stock.pe_ratio: None, or the Decimal quotient
pe_ratio(s, price_pennies) ==
    IF pe_ratio_undefined(s, price_pennies) THEN NoneResult
    ELSE OkDec(DecDiv(DecimalOfInt(price_pennies), s.last_dividend_pennies))

\* price_pennies / 100 is too large for a float: the quotient, rounded to 53
\* bits, reaches 2^1024, which is from 100 * (2^54 - 1) * 2^970 on, a number
\* of 311 digits
TrueDivOverflows(price_pennies) ==
    /\ Len(IntDigits(Abs(price_pennies))) >= 311
    /\ BigLeq(MulPow2(<<1, 8, 0, 1, 4, 3, 9, 8, 5, 0, 9, 4, 8, 1, 9, 8, 3, 0, 0>>, 970),
              IntDigits(Abs(price_pennies)))

\* mutant of InvalidTradeParams: the price left unchecked
InvalidQuantityOnly(quantity, price_pennies) ==
    quantity <= 0

\* the guard of Stock.record_trade
InvalidTradeParams(quantity, price_pennies) ==
    quantity <= 0 \/ price_pennies <= 0

\* Trade(datetime.now(), quantity, indicator, price_pennies)
Trade(timestamp, quantity, indicator, price_pennies) ==
    [timestamp |-> timestamp,
     quantity |-> quantity,
     indicator |-> indicator,
     price_pennies |-> price_pennies]

\* mutant of AppendTrade: the trade put first
PrependTrade(trades, trade) == <<trade>> \o trades

\* self._trades.append(trade)
AppendTrade(trades, trade) == Append(trades, trade)

RECURSIVE SumQty(_)
\* sum(t.quantity for t in recent)
SumQty(ts) == IF ts = <<>> THEN 0 ELSE ts[1].quantity + SumQty(Tail(ts))

RECURSIVE SumWeighted(_)
\* sum(t.quantity * t.price_pennies for t in recent), as a digit sequence
SumWeighted(ts) ==
    IF ts = <<>> THEN <<0>>
    ELSE BigAdd(BigMul(IntDigits(ts[1].quantity), IntDigits(ts[1].price_pennies)),
                SumWeighted(Tail(ts)))

\* t.timestamp >= cutoff
InWindow(t, cutoff) == t.timestamp >= cutoff

\* [t for t in self._trades if t.timestamp >= cutoff]
RecentTrades(trades, cutoff) == SelectSeq(trades, LAMBDA t : InWindow(t, cutoff))

\* the final rounding of the VWSP: vwap.quantize(Decimal('0.01'), ROUND_HALF_UP)
VwapQuantize(d) == QuantizeHalfUp(d)

\* timedelta(minutes=minutes_back) raises: a timedelta holds at most
\* 999999999 days either way
TimedeltaOverflows(minutes_back) == Abs(minutes_back \div 1440) > 999999999

\* datetime.now() - timedelta(...) raises: the difference lies before
\* datetime.min or, 5258964960 minutes later, after datetime.max
DateOutOfRange(clock, minutes_back) ==
    \/ ClockEpoch + clock - minutes_back < 0
    \/ BigLeq(<<5, 2, 5, 8, 9, 6, 4, 9, 6, 0>>,
              IntDigits(ClockEpoch + clock - minutes_back))

\* the exception of cutoff = datetime.now() - timedelta(minutes=minutes_back),
\* or "ok"
CutoffError(clock, minutes_back) ==
    IF TimedeltaOverflows(minutes_back)
    THEN "OverflowError: days; must have magnitude <= 999999999"
    ELSE IF DateOutOfRange(clock, minutes_back)
    THEN "OverflowError: date value out of range"
    ELSE "ok"

\* datetime.now() - timedelta(minutes=minutes_back) when it does not raise,
\* the clock in minutes
Cutoff(clock, minutes_back) == clock - minutes_back

\* Stock.volume_weighted_stock_price from the reading of the ledger on:
\* None, the Decimal, or the exception of quantize
volume_weighted_stock_price(trades, cutoff) ==
    LET recent == RecentTrades(trades, cutoff)
        total_qty == SumQty(recent)
        weighted == SumWeighted(recent)
    IN IF recent = <<>> THEN NoneResult
       ELSE IF total_qty = 0 THEN NoneResult
       ELSE VwapQuantize(DecDiv(DecDiv([sign |-> 0, digits |-> weighted, exp |-> 0],
                                        total_qty), 100))

(***************************************************************************)
(* GlobalBeverageCorpExchange                                              *)
(***************************************************************************)
\* mutant of SymbolRegistered: the membership test lost
NeverRegistered(reg, symbol) == FALSE

\* symbol in self._stocks
SymbolRegistered(reg, symbol) == \E i \in 1..Len(reg) : reg[i].symbol = symbol

\* self._stocks[symbol]
Lookup(reg, symbol) == reg[CHOOSE i \in 1..Len(reg) : reg[i].symbol = symbol].obj

\* self._stocks[symbol] = stock: a new key goes last, a key already there
\* keeps its place and takes the new value
RegistryPut(reg, symbol, o) ==
    IF \E i \in 1..Len(reg) : reg[i].symbol = symbol
    THEN [i \in 1..Len(reg) |->
              IF reg[i].symbol = symbol THEN [symbol |-> symbol, obj |-> o] ELSE reg[i]]
    ELSE Append(reg, [symbol |-> symbol, obj |-> o])

\* list(self._stocks.values()), as object references
StockValues(reg) == [i \in 1..Len(reg) |-> reg[i].obj]

\* stock.volume_weighted_stock_price() or 0, in hundredths, for a result r
\* that is a Decimal or None
VwspOrZero(r) == IF r.status = "None" THEN <<0>> ELSE r.dec.digits

\* mutant of PositiveOnly: the zeros kept
KeepAll(vs) == vs

\* [v for v in vwsps if v > 0]
PositiveOnly(vs) == SelectSeq(vs, LAMBDA v : v # <<0>>)

RECURSIVE Product(_)
Product(vs) == IF vs = <<>> THEN <<1>> ELSE BigMul(Product(Tail(vs)), vs[1])

RECURSIVE SeqMax(_)
SeqMax(vs) ==
    IF Len(vs) = 1 THEN vs[1]
    ELSE IF BigLeq(SeqMax(Tail(vs)), vs[1]) THEN vs[1] ELSE SeqMax(Tail(vs))

\* x = 0 or (2x - 1)^n <= q: x - 1/2 is at most the n-th root of q / 2^n
RootOk(x, n, q) ==
    \/ Strip(x) = <<0>>
    \/ BigLeq(BigPow(BigSub(BigMulSmall(x, 2), <<1>>), n), q)

RECURSIVE RootDigits(_, _, _, _)
\* the largest x of Len(prefix) + k digits that begins with prefix and has
\* RootOk(x, n, q), one digit at a time
RootDigits(prefix, k, n, q) ==
    IF k = 0 THEN Strip(prefix)
    ELSE LET try(d) == prefix \o <<d>> \o Zeros(k - 1)
             digit == CHOOSE d \in 0..9 :
                          /\ RootOk(try(d), n, q)
                          /\ d = 9 \/ ~RootOk(try(d + 1), n, q)
         IN After(digit, RootDigits(Append(prefix, digit), k - 1, n, q))

\* the real n-th root of p, to the nearest integer, halves upward; hi is
\* an upper bound of the root
NearestRoot(n, p, hi) == RootDigits(<<>>, Len(hi), n, MulPow2(p, n))

\* 10^FloatTolDigits
FloatTolInverse == <<1>> \o Zeros(FloatTolDigits)

\* c - 1/2 <= y < c + 1/2 holds of some y within the relative tolerance of
\* the real n-th root of p
WithinFloatError(c, n, p) ==
    LET t == FloatTolInverse
        shift == Zeros(FloatTolDigits * n)
        twoP == MulPow2(p, n)
    IN /\ \/ c = <<0>>
          \/ BigLeq(BigPow(BigSub(BigMulSmall(c, 2), <<1>>), n) \o shift,
                    BigMul(twoP, BigPow(BigAdd(t, <<1>>), n)))
       /\ BigLess(BigMul(twoP, BigPow(BigSub(t, <<1>>), n)),
                  BigPow(BigAdd(BigMulSmall(c, 2), <<1>>), n) \o shift)

\* the integers within k of r
Around(r, k) ==
    {BigAdd(r, IntDigits(j)) : j \in 0..k}
        \cup {BigSub(r, IntDigits(j)) : j \in {i \in 1..k : BigLeq(IntDigits(i), r)}}

\* Decimal(str(math.exp(log_sum / len(vwsps)))).quantize(Decimal('0.01'),
\* ROUND_HALF_UP) for vwsps given in hundredths: the values, in hundredths,
\* that this can return.  math.exp(...) is a double near the real number
\* exp(mean(ln v)), the len-th root of the product; its last bits are the
\* platform's (libm's log and exp, the order of the sum), so the result is
\* the rounding of any number within the floating-point tolerance of the
\* root.  Away from a tie that is the root to the nearest hundredth.
ExpMeanLog(vs) ==
    LET n == Len(vs)
        p == Product(vs)
        r == NearestRoot(n, p, SeqMax(vs))
        spread == 1 + (IF Len(r) > FloatTolDigits
                       THEN DigitsInt(SubSeq(r, 1, Len(r) - FloatTolDigits + 1))
                       ELSE 0)
    IN {c \in Around(r, spread) : WithinFloatError(c, n, p)}

\* the Decimal returned for the coefficient c, or the quantize error
IndexResult(c) ==
    IF Len(c) > Prec THEN InvalidOperation
    ELSE OkDec([sign |-> 0, digits |-> c, exp |-> -2])

(***************************************************************************)
(* State                                                                   *)
(***************************************************************************)
\* callers of the exchange; Main is the caller of a sequential run
Callers == {1, 2}

Main == 1

\* a caller between two calls
Idle == [pc |-> "idle"]

\* the record of the last step: the operation, its receiver, its integer
\* arguments and its outcome (status "running" inside a call); reads lists,
\* for a VWSP and for the index, the Stock objects read and the clock value
\* each cutoff was taken from
Call(op, obj, sym, args, ind, status, dec, reads) ==
    [op |-> op, obj |-> obj, sym |-> sym, args |-> args, ind |-> ind,
     status |-> status, dec |-> dec, reads |-> reads]

RECURSIVE CountTrades(_)
CountTrades(objs) ==
    IF objs = <<>> THEN 0 ELSE Len(objs[1].trades) + CountTrades(Tail(objs))

\* callers holding a Trade built and not yet appended
Stamped == {c \in Callers : pend[c].pc = "stamped"}

\* GlobalBeverageCorpExchange(): no Stock, an empty registry
Init ==
    /\ heap = <<>>
    /\ stocks = <<>>
    /\ now = 0
    /\ last = Call("init", 0, "", <<>>, "", "ok", ZeroDec, <<>>)
    /\ pend = [c \in Callers |-> Idle]

(***************************************************************************)
(* Operations.  Caller c starts a call when it is in no other call.  No    *)
(* lock is taken anywhere: a call that reads the clock or the registry and *)
(* then reads or writes shared data is as many steps, and the clock and    *)
(* the other caller may move in between.                                   *)
(***************************************************************************)
\* a call that raises before it has written anything
Raise(op, obj, sym, args, ind, status) ==
    /\ last' = Call(op, obj, sym, args, ind, status, ZeroDec, <<>>)
    /\ UNCHANGED <<heap, stocks, now, pend>>

\* a call that returns a value and writes nothing
Return(op, obj, sym, args, status, dec) ==
    /\ last' = Call(op, obj, sym, args, "", status, dec, <<>>)
    /\ UNCHANGED <<heap, stocks, now, pend>>

\* caller c goes on inside its call, holding the locals a
Hold(c, a, op, obj, sym, args, ind) ==
    /\ pend' = [pend EXCEPT ![c] = a]
    /\ last' = Call(op, obj, sym, args, ind, "running", ZeroDec, <<>>)
    /\ UNCHANGED <<heap, stocks, now>>

\* construct the Stock, store it under its symbol, return it
Register(op, stock, args) ==
    /\ Len(heap) < MaxObjects
    /\ heap' = Append(heap, stock)
    /\ stocks' = RegistryPut(stocks, stock.symbol, Len(heap) + 1)
    /\ last' = Call(op, Len(heap) + 1, stock.symbol, args, "", "ok", ZeroDec, <<>>)
    /\ UNCHANGED now

\* create_common_stock by the only caller of a sequential run
create_common_stock(c, symbol, last_dividend, par_value) ==
    LET op == "create_common_stock"
        args == <<last_dividend, par_value>>
        err == CommonStock_init(symbol, last_dividend, par_value)
    IN /\ pend[c] = Idle
       /\ IF SymbolRegistered(stocks, symbol)
          THEN Raise(op, 0, symbol, args, "", "ValueError: Stock exists")
          ELSE IF err # "ok" THEN Raise(op, 0, symbol, args, "", err)
          ELSE /\ Register(op, NewStock("CommonStock", symbol, last_dividend,
                                        Float_0_0, par_value), args)
               /\ UNCHANGED pend

\* create_preferred_stock by the only caller of a sequential run
create_preferred_stock(c, symbol, last_dividend, fixed_dividend_pct, par_value) ==
    LET op == "create_preferred_stock"
        args == <<last_dividend, par_value>>
        err == PreferredStock_init(symbol, last_dividend, fixed_dividend_pct, par_value)
    IN /\ pend[c] = Idle
       /\ IF SymbolRegistered(stocks, symbol)
          THEN Raise(op, 0, symbol, args, "", "ValueError: Stock exists")
          ELSE IF err # "ok" THEN Raise(op, 0, symbol, args, "", err)
          ELSE /\ Register(op, NewStock("PreferredStock", symbol, last_dividend,
                                        fixed_dividend_pct, par_value), args)
               /\ UNCHANGED pend

get_stock(c, symbol) ==
    /\ pend[c] = Idle
    /\ IF ~SymbolRegistered(stocks, symbol)
       THEN Raise("get_stock", 0, symbol, <<>>, "", "KeyError")
       ELSE Return("get_stock", Lookup(stocks, symbol), symbol, <<>>, "ok", ZeroDec)

\* Stock.record_trade, the guard and then
\* trade = Trade(datetime.now(), quantity, indicator, price_pennies)
record_trade_stamp(c, o, quantity, indicator, price_pennies) ==
    LET args == <<quantity, price_pennies>>
    IN /\ pend[c] = Idle
       /\ IF InvalidTradeParams(quantity, price_pennies)
          THEN Raise("record_trade", o, heap[o].symbol, args, indicator,
                     "ValueError: Invalid trade params")
          ELSE /\ CountTrades(heap) + Cardinality(Stamped) < MaxTrades
               /\ Hold(c, [pc |-> "stamped", obj |-> o,
                           trade |-> Trade(now, quantity, indicator, price_pennies)],
                       "record_trade_stamp", o, heap[o].symbol, args, indicator)

\* Stock.record_trade, self._trades.append(trade) and then the log line,
\* whose price_pennies / 100 is a float
record_trade_append(c) ==
    LET a == pend[c]
    IN /\ a.pc = "stamped"
       /\ heap' = [heap EXCEPT ![a.obj].trades = AppendTrade(@, a.trade)]
       /\ pend' = [pend EXCEPT ![c] = Idle]
       /\ last' = Call("record_trade", a.obj, heap[a.obj].symbol,
                       <<a.trade.quantity, a.trade.price_pennies>>, a.trade.indicator,
                       IF TrueDivOverflows(a.trade.price_pennies)
                       THEN "OverflowError: integer division result too large for a float"
                       ELSE "ok",
                       ZeroDec, <<>>)
       /\ UNCHANGED <<stocks, now>>

call_dividend_yield(c, o, price_pennies) ==
    LET r == dividend_yield(heap[o], price_pennies)
    IN /\ pend[c] = Idle
       /\ Return("dividend_yield", o, heap[o].symbol, <<price_pennies>>, r.status, r.dec)

call_pe_ratio(c, o, price_pennies) ==
    LET r == pe_ratio(heap[o], price_pennies)
    IN /\ pend[c] = Idle
       /\ Return("pe_ratio", o, heap[o].symbol, <<price_pennies>>, r.status, r.dec)

\* Stock.volume_weighted_stock_price, the reading of the clock:
\* cutoff = datetime.now() - timedelta(minutes=minutes_back), which raises
\* when the cutoff is no date
volume_weighted_stock_price_cutoff(c, o, minutes_back) ==
    /\ pend[c] = Idle
    /\ IF CutoffError(now, minutes_back) # "ok"
       THEN Raise("volume_weighted_stock_price", o, heap[o].symbol, <<minutes_back>>, "",
                  CutoffError(now, minutes_back))
       ELSE Hold(c, [pc |-> "cutoff", obj |-> o, minutes_back |-> minutes_back,
                     clock |-> now],
                 "volume_weighted_stock_price_cutoff", o, heap[o].symbol,
                 <<minutes_back>>, "")

\* Stock.volume_weighted_stock_price, the reading of the ledger and the rest
volume_weighted_stock_price_read(c) ==
    LET a == pend[c]
        r == volume_weighted_stock_price(heap[a.obj].trades, Cutoff(a.clock, a.minutes_back))
    IN /\ a.pc = "cutoff"
       /\ pend' = [pend EXCEPT ![c] = Idle]
       /\ last' = Call("volume_weighted_stock_price", a.obj, heap[a.obj].symbol,
                       <<a.minutes_back>>, "", r.status, r.dec,
                       <<[obj |-> a.obj, clock |-> a.clock]>>)
       /\ UNCHANGED <<heap, stocks, now>>

\* gbce_all_share_index, entered: the iterator over self._stocks.values()
\* is made; it notes the size of the dict
gbce_all_share_index_begin(c) ==
    /\ pend[c] = Idle
    /\ Hold(c, [pc |-> "iterating", size |-> Len(stocks), pos |-> 1,
                vwsps |-> <<>>, reads |-> <<>>],
            "gbce_all_share_index_begin", 0, "", <<>>, "")

\* the call ends, with a result or an exception
IndexEnds(c, status, dec, reads) ==
    /\ pend' = [pend EXCEPT ![c] = Idle]
    /\ last' = Call("gbce_all_share_index", 0, "", <<>>, "", status, dec, reads)
    /\ UNCHANGED <<heap, stocks, now>>

\* gbce_all_share_index, the iterator asked for the next Stock: it raises
\* if the dict has changed size; else it yields the Stock; after the last
\* Stock the zeros are dropped and the mean is computed
gbce_all_share_index_next(c) ==
    LET a == pend[c]
    IN /\ a.pc = "iterating"
       /\ IF Len(stocks) # a.size
          THEN IndexEnds(c, "RuntimeError: dictionary changed size during iteration",
                         ZeroDec, a.reads)
          ELSE IF a.pos <= Len(stocks)
          THEN Hold(c, [pc |-> "yielded", size |-> a.size, pos |-> a.pos,
                        vwsps |-> a.vwsps, reads |-> a.reads,
                        obj |-> StockValues(stocks)[a.pos]],
                    "gbce_all_share_index_next", 0, "", <<>>, "")
          ELSE IF PositiveOnly(a.vwsps) = <<>> THEN IndexEnds(c, "None", ZeroDec, a.reads)
          ELSE \E cents \in ExpMeanLog(PositiveOnly(a.vwsps)) :
                   IndexEnds(c, IndexResult(cents).status, IndexResult(cents).dec, a.reads)

\* gbce_all_share_index, stock.volume_weighted_stock_price() entered: the
\* clock read for the Stock's cutoff
gbce_all_share_index_cutoff(c) ==
    LET a == pend[c]
    IN /\ a.pc = "yielded"
       /\ IF CutoffError(now, DefaultMinutesBack) # "ok"
          THEN IndexEnds(c, CutoffError(now, DefaultMinutesBack), ZeroDec, a.reads)
          ELSE Hold(c, [pc |-> "reading", size |-> a.size, pos |-> a.pos,
                        vwsps |-> a.vwsps, reads |-> a.reads,
                        obj |-> a.obj, clock |-> now],
                    "gbce_all_share_index_cutoff", 0, "", <<>>, "")

\* gbce_all_share_index, the Stock's ledger read and its VWSP, or 0, put on
\* the list
gbce_all_share_index_read(c) ==
    LET a == pend[c]
        r == volume_weighted_stock_price(heap[a.obj].trades,
                                         Cutoff(a.clock, DefaultMinutesBack))
        reads == Append(a.reads, [obj |-> a.obj, clock |-> a.clock])
    IN /\ a.pc = "reading"
       /\ IF r.status \notin {"None", "ok"}
          THEN IndexEnds(c, r.status, ZeroDec, reads)
          ELSE Hold(c, [pc |-> "iterating", size |-> a.size, pos |-> a.pos + 1,
                        vwsps |-> Append(a.vwsps, VwspOrZero(r)), reads |-> reads],
                    "gbce_all_share_index_read", 0, "", <<>>, "")

\* the wall clock moves on by d minutes
Tick(d) ==
    /\ now + d <= MaxTime
    /\ now' = now + d
    /\ last' = Call("tick", 0, "", <<d>>, "", "ok", ZeroDec, <<>>)
    /\ UNCHANGED <<heap, stocks, pend>>

Objects == 1..Len(heap)

\* create_common_stock / create_preferred_stock under concurrent callers,
\* the membership test: if symbol in self._stocks: raise ValueError(...)
create_check(c, kind, symbol, last_dividend, fixed_dividend_pct, par_value) ==
    /\ pend[c] = Idle
    /\ IF SymbolRegistered(stocks, symbol)
       THEN Raise(kind, 0, symbol, <<c>>, "", "ValueError: Stock exists")
       ELSE Hold(c, [pc |-> "checked", kind |-> kind, symbol |-> symbol,
                     last_dividend |-> last_dividend,
                     fixed_dividend_pct |-> fixed_dividend_pct,
                     par_value |-> par_value],
                 "create_check", 0, symbol, <<c>>, "")

\* stock = ...Stock(...); self._stocks[symbol] = stock; return stock
create_store(c) ==
    LET a == pend[c]
        err == IF a.kind = "create_common_stock"
               THEN CommonStock_init(a.symbol, a.last_dividend, a.par_value)
               ELSE PreferredStock_init(a.symbol, a.last_dividend, a.fixed_dividend_pct,
                                        a.par_value)
        stock == IF a.kind = "create_common_stock"
                 THEN NewStock("CommonStock", a.symbol, a.last_dividend, Float_0_0,
                               a.par_value)
                 ELSE NewStock("PreferredStock", a.symbol, a.last_dividend,
                               a.fixed_dividend_pct, a.par_value)
    IN /\ a.pc = "checked"
       /\ pend' = [pend EXCEPT ![c] = Idle]
       /\ IF err # "ok"
          THEN /\ last' = Call(a.kind, 0, a.symbol, <<c>>, "", err, ZeroDec, <<>>)
               /\ UNCHANGED <<heap, stocks, now>>
          ELSE Register(a.kind, stock, <<c>>)

(***************************************************************************)
(* Spec: every operation of one exchange, called one at a time.            *)
(***************************************************************************)
Indicators == {"BUY", "SELL"}
Quantities == {0, 2}
Prices == {-1, 7}
TickSteps == {5, 10}

Next ==
    \/ \E par \in {0, 100} : create_common_stock(Main, "TEA", 3, par)
    \/ \E rate \in {Float_0_0, Float_0_5} :
           create_preferred_stock(Main, "GIN", 8, rate, 100)
    \/ \E sym \in {"TEA", "GIN"} : get_stock(Main, sym)
    \/ \E o \in Objects, q \in Quantities, ind \in Indicators, p \in Prices :
           record_trade_stamp(Main, o, q, ind, p)
    \/ record_trade_append(Main)
    \/ \E o \in Objects : call_dividend_yield(Main, o, 7)
    \/ \E o \in Objects : call_pe_ratio(Main, o, 7)
    \/ \E o \in Objects : volume_weighted_stock_price_cutoff(Main, o, DefaultMinutesBack)
    \/ volume_weighted_stock_price_read(Main)
    \/ gbce_all_share_index_begin(Main)
    \/ gbce_all_share_index_next(Main)
    \/ gbce_all_share_index_cutoff(Main)
    \/ gbce_all_share_index_read(Main)
    \/ Tick(DefaultMinutesBack + 1)

Spec == Init /\ [][Next]_vars

(***************************************************************************)
(* SpecRegistry: the factory operations over valid and invalid arguments.  *)
(***************************************************************************)
RegistrySymbols == {"TEA", "GIN", "", "ABCDEFGHIJK"}

NextRegistry ==
    \/ \E sym \in RegistrySymbols, ld \in {-1, 3}, par \in {0, 100} :
           create_common_stock(Main, sym, ld, par)
    \/ \E sym \in RegistrySymbols, ld \in {-1, 8},
          rate \in {Float_0_0, Float_1_0, Float_1_25}, par \in {0, 100} :
           create_preferred_stock(Main, sym, ld, rate, par)
    \/ \E sym \in RegistrySymbols : get_stock(Main, sym)
    \/ \E o \in Objects : record_trade_stamp(Main, o, 2, "BUY", 7)
    \/ record_trade_append(Main)

SpecRegistry == Init /\ [][NextRegistry]_vars

(***************************************************************************)
(* SpecMetrics: dividend_yield and pe_ratio over stocks and prices.        *)
(***************************************************************************)
MetricPrices == {-1, 0, 7, 32, 2400}

\* the rates written by the caller, as fractions, and the floats they denote
MetricRates ==
    {[num |-> 3, den |-> 100, float |-> Float_0_03],
     [num |-> 25, den |-> 100, float |-> Float_0_25],
     [num |-> 1, den |-> 1, float |-> Float_1_0]}

NextMetrics ==
    \/ \E ld \in {0, 3, 8} : create_common_stock(Main, "TEA", ld, 100)
    \/ \E ld \in {-1, 0, 8}, rate \in MetricRates :
           create_preferred_stock(Main, "GIN", ld, rate.float, 100)
    \/ \E o \in Objects, p \in MetricPrices : call_dividend_yield(Main, o, p)
    \/ \E o \in Objects, p \in MetricPrices : call_pe_ratio(Main, o, p)

SpecMetrics == Init /\ [][NextMetrics]_vars

(***************************************************************************)
(* SpecVwsp: one ledger under a moving clock.                              *)
(***************************************************************************)
VwspQuantities == {1, 2}
VwspPrices == {4, 9}
Windows == {5, 10, 2000000000}

NextVwsp ==
    \/ create_common_stock(Main, "TEA", 0, 100)
    \/ \E o \in Objects, q \in VwspQuantities, ind \in Indicators, p \in VwspPrices :
           record_trade_stamp(Main, o, q, ind, p)
    \/ record_trade_append(Main)
    \/ \E o \in Objects, w \in Windows : volume_weighted_stock_price_cutoff(Main, o, w)
    \/ volume_weighted_stock_price_read(Main)
    \/ \E d \in TickSteps : Tick(d)

SpecVwsp == Init /\ [][NextVwsp]_vars

(***************************************************************************)
(* SpecIndex: the all-share index over two ledgers under a clock that      *)
(* moves between calls and inside a call.                                  *)
(***************************************************************************)
IndexPrices == {400, 900}

NextIndex ==
    \/ \E sym \in {"TEA", "GIN"} : create_common_stock(Main, sym, 0, 100)
    \/ \E o \in Objects, p \in IndexPrices : record_trade_stamp(Main, o, 1, "BUY", p)
    \/ record_trade_append(Main)
    \/ gbce_all_share_index_begin(Main)
    \/ gbce_all_share_index_next(Main)
    \/ gbce_all_share_index_cutoff(Main)
    \/ gbce_all_share_index_read(Main)
    \/ Tick(DefaultMinutesBack)

SpecIndex == Init /\ [][NextIndex]_vars

(***************************************************************************)
(* SpecIndexLarge: the all-share index over share prices of some 80,000    *)
(* currency units.                                                         *)
(***************************************************************************)
LargePrices == {400, 900, 8064263, 8064264}

NextIndexLarge ==
    \/ \E sym \in {"TEA", "GIN"} : create_common_stock(Main, sym, 0, 100)
    \/ \E o \in Objects, p \in LargePrices : record_trade_stamp(Main, o, 1, "BUY", p)
    \/ record_trade_append(Main)
    \/ gbce_all_share_index_begin(Main)
    \/ gbce_all_share_index_next(Main)
    \/ gbce_all_share_index_cutoff(Main)
    \/ gbce_all_share_index_read(Main)
    \/ Tick(DefaultMinutesBack + 1)

SpecIndexLarge == Init /\ [][NextIndexLarge]_vars

(***************************************************************************)
(* SpecConc: two callers on one exchange, under a moving clock.  Both      *)
(* create Stocks and record trades; Main also reads prices and the index.  *)
(***************************************************************************)
\* trades recorded over a concurrent run
MaxConcTrades == 2

NextConc ==
    \/ \E c \in Callers, sym \in {"TEA", "GIN"} :
           create_check(c, "create_common_stock", sym, 3, Float_0_0, 100)
    \/ \E c \in Callers : create_store(c)
    \/ get_stock(Main, "TEA")
    \/ \E c \in Callers, o \in Objects :
           /\ CountTrades(heap) + Cardinality(Stamped) < MaxConcTrades
           /\ record_trade_stamp(c, o, 1, "BUY", 4)
    \/ \E c \in Callers : record_trade_append(c)
    \/ \E o \in Objects : volume_weighted_stock_price_cutoff(Main, o, DefaultMinutesBack)
    \/ volume_weighted_stock_price_read(Main)
    \/ gbce_all_share_index_begin(Main)
    \/ gbce_all_share_index_next(Main)
    \/ gbce_all_share_index_cutoff(Main)
    \/ gbce_all_share_index_read(Main)
    \/ Tick(DefaultMinutesBack)

SpecConc == Init /\ [][NextConc]_vars

(***************************************************************************)
(* Properties                                                              *)
(***************************************************************************)
IsPrefix(a, b) == Len(a) <= Len(b) /\ SubSeq(b, 1, Len(a)) = a

CreateOps == {"create_common_stock", "create_preferred_stock"}

\* the symbols of a registry
Symbols(reg) == {reg[i].symbol : i \in 1..Len(reg)}

\* the Stock objects of a registry
Registered(reg) == {reg[i].obj : i \in 1..Len(reg)}

\* the Stock a registry holds for one of its symbols
Bound(reg, sym) == reg[CHOOSE i \in 1..Len(reg) : reg[i].symbol = sym].obj

\* a Stock without its ledger
Fields(s) == [s EXCEPT !.trades = <<>>]

\* n / d to the nearest integer, halves upward (n >= 0, d > 0)
HalfUp(n, d) == (2 * n + d) \div (2 * d)

\* n hundredths as a Decimal of two fractional digits
Cents(n) == [sign |-> 0, digits |-> IntDigits(n), exp |-> -2]

\* the positions of the trades of a ledger no older than the cutoff
WindowIdx(ts, cutoff) == {i \in 1..Len(ts) : ts[i].timestamp >= cutoff}

RECURSIVE QtyOver(_, _)
QtyOver(ts, S) ==
    IF S = {} THEN 0
    ELSE LET i == CHOOSE j \in S : TRUE IN ts[i].quantity + QtyOver(ts, S \ {i})

RECURSIVE NotionalOver(_, _)
NotionalOver(ts, S) ==
    IF S = {} THEN 0
    ELSE LET i == CHOOSE j \in S : TRUE
         IN ts[i].quantity * ts[i].price_pennies + NotionalOver(ts, S \ {i})

\* the VWSP the specification gives, in hundredths, over a non-empty window
SpecVwspCents(ts, cutoff) ==
    HalfUp(NotionalOver(ts, WindowIdx(ts, cutoff)), QtyOver(ts, WindowIdx(ts, cutoff)))

\* the reads of the last call: each is a Stock and the clock value its
\* window was counted back from
Reads == {last.reads[i] : i \in 1..Len(last.reads)}

\* the reads of the last index call that met a trade in the default window
Qualifying ==
    {r \in Reads : WindowIdx(heap[r.obj].trades, r.clock - DefaultMinutesBack) # {}}

\* the VWSP the specification gives for a read
ReadVwsp(r) == SpecVwspCents(heap[r.obj].trades, r.clock - DefaultMinutesBack)

RECURSIVE VwspProduct(_)
VwspProduct(S) ==
    IF S = {} THEN <<1>>
    ELSE LET r == CHOOSE x \in S : TRUE
         IN BigMul(VwspProduct(S \ {r}), IntDigits(ReadVwsp(r)))

\* ---- C1 ----------------------------------------------------------------
\* C1: a create_common_stock / create_preferred_stock call on a registered
\* symbol fails with the duplicate-symbol error and changes neither the
\* registry nor any Stock; no step rebinds a registered symbol or changes
\* the symbol, par value or dividend fields of the Stock it names; and
\* get_stock returns the Stock the registry holds for the symbol.
C1_DuplicateSymbolRejected ==
    [][ /\ (last'.op \in CreateOps /\ last'.sym \in Symbols(stocks))
            => (/\ last'.status = "ValueError: Stock exists"
                /\ heap' = heap
                /\ stocks' = stocks)
        /\ \A sym \in Symbols(stocks) :
               /\ sym \in Symbols(stocks')
               /\ Bound(stocks', sym) = Bound(stocks, sym)
               /\ Fields(heap'[Bound(stocks, sym)]) = Fields(heap[Bound(stocks, sym)])
               /\ heap[Bound(stocks, sym)].symbol = sym
        /\ (last'.op = "get_stock" /\ last'.sym \in Symbols(stocks))
            => (last'.status = "ok" /\ last'.obj = Bound(stocks, last'.sym)) ]_vars

\* a duplicate create was rejected while the original Stock held trades
C1_Witness ==
    /\ last.op \in CreateOps
    /\ last.status = "ValueError: Stock exists"
    /\ heap[Bound(stocks, last.sym)].trades # <<>>

\* ---- C2 ----------------------------------------------------------------
\* C2: record_trade with quantity <= 0 or price <= 0 fails with the
\* invalid-trade error and leaves every ledger and the registry as they were.
C2_InvalidTradeNoEffect ==
    [][ (last'.op = "record_trade" /\ (last'.args[1] <= 0 \/ last'.args[2] <= 0))
            => (/\ last'.status = "ValueError: Invalid trade params"
                /\ heap' = heap
                /\ stocks' = stocks) ]_vars

\* an invalid trade was rejected on an exchange of two Stocks holding trades
C2_Witness ==
    /\ last.op = "record_trade"
    /\ last.status = "ValueError: Invalid trade params"
    /\ Len(heap) = 2
    /\ \A o \in Objects : heap[o].trades # <<>>

\* ---- C3 ----------------------------------------------------------------
\* C3: across every step each ledger before the step is a prefix of the
\* ledger after it; a ledger grows only by a successful record_trade on that
\* Stock, by exactly the one Trade of the call's quantity, indicator and
\* price, stamped with a clock value read during the call; a new Stock
\* starts with an empty ledger.
C3_LedgerAppendOnly ==
    [][ /\ Len(heap') >= Len(heap)
        /\ \A o \in 1..Len(heap') :
               LET old == IF o <= Len(heap) THEN heap[o].trades ELSE <<>>
                   new == heap'[o].trades
               IN /\ IsPrefix(old, new)
                  /\ new # old
                       => /\ last'.op = "record_trade"
                          /\ last'.status = "ok"
                          /\ last'.obj = o
                          /\ Len(new) = Len(old) + 1
                          /\ new[Len(new)].timestamp <= now
                          /\ new[Len(new)].quantity = last'.args[1]
                          /\ new[Len(new)].indicator = last'.ind
                          /\ new[Len(new)].price_pennies = last'.args[2]
        /\ (last'.op = "record_trade" /\ last'.status = "ok")
               => Len(heap'[last'.obj].trades) = Len(heap[last'.obj].trades) + 1 ]_vars

\* a trade was appended to a ledger that already held one
C3_Witness ==
    /\ last.op = "record_trade"
    /\ last.status = "ok"
    /\ Len(heap[last.obj].trades) >= 2

\* ---- C4 ----------------------------------------------------------------
\* C4: volume_weighted_stock_price(window), its clock read at the value
\* clock, is undefined exactly when no trade of the ledger has timestamp
\* >= clock - window, and otherwise is sum(quantity * price) / sum(quantity)
\* over exactly those trades, in hundredths of a currency unit, rounded
\* half-up once; the indicator plays no part.
C4_VwspOverWindow ==
    last.op = "volume_weighted_stock_price" =>
        /\ last.status \in {"None", "ok"}
        /\ LET ts == heap[last.obj].trades
               S == WindowIdx(ts, last.reads[1].clock - last.args[1])
           IN /\ (last.status = "None") <=> (S = {})
              /\ S # {} => last.dec = Cents(HalfUp(NotionalOver(ts, S), QtyOver(ts, S)))

\* ---- C5 ----------------------------------------------------------------
\* C5: all_share_index() reads every registered Stock and never raises; it
\* is undefined exactly when no registered Stock has a trade in the default
\* window, and otherwise is strictly positive, whatever the number of
\* Stocks without recent trades.
C5_IndexUndefinedOrPositive ==
    last.op = "gbce_all_share_index" =>
        /\ {r.obj : r \in Reads} = Registered(stocks)
        /\ last.status \in {"None", "ok"}
        /\ (last.status = "None") <=> (Qualifying = {})
        /\ last.status = "ok" => (last.dec.sign = 0 /\ last.dec.digits # <<0>>)

\* an index was returned while a registered Stock held only trades older
\* than the window
C5_Witness ==
    /\ last.op = "gbce_all_share_index"
    /\ last.status = "ok"
    /\ \E r \in Reads \ Qualifying : heap[r.obj].trades # <<>>

\* ---- C6 ----------------------------------------------------------------
\* C6: with n >= 1 Stocks of defined VWSP, the index c (in hundredths) is the
\* n-th root of the product of exactly those VWSPs rounded half-up:
\* (c - 1/2)^n <= product < (c + 1/2)^n; VWSPs 4.00 and 9.00 give 6.00.
C6_IndexIsGeometricMean ==
    (last.op = "gbce_all_share_index" /\ Qualifying # {}) =>
        LET n == Cardinality(Qualifying)
            prod == MulPow2(VwspProduct(Qualifying), n)
            twice == BigMulSmall(last.dec.digits, 2)
        IN /\ last.status = "ok"
           /\ last.dec.exp = -2
           /\ last.dec.digits # <<0>>
           /\ BigLeq(BigPow(BigSub(twice, <<1>>), n), prod)
           /\ BigLess(prod, BigPow(BigAdd(twice, <<1>>), n))
           /\ {ReadVwsp(r) : r \in Qualifying} = {400, 900} => last.dec = Cents(600)

\* ---- C7 ----------------------------------------------------------------
\* | |dec| * |q| - |p| | in units of dec's last place, or of 1 if that is
\* less
ScaledError(dec, p, q) ==
    LET lhs == Strip(BigMulSmall(dec.digits, Abs(q))
                         \o Zeros(IF dec.exp > 0 THEN dec.exp ELSE 0))
        rhs == Strip(IntDigits(Abs(p)) \o Zeros(IF dec.exp < 0 THEN -dec.exp ELSE 0))
    IN IF BigLess(lhs, rhs) THEN BigSub(rhs, lhs) ELSE BigSub(lhs, rhs)

\* the price and the Stock of the last pe_ratio call
PePrice == last.args[1]

PeDividend == heap[last.obj].last_dividend_pennies

\* pe_ratio is undefined exactly when price <= 0 or last_dividend = 0
PeUndefinedIff ==
    /\ last.status \in {"None", "ok"}
    /\ (last.status = "None") <=> (PePrice <= 0 \/ PeDividend = 0)

\* C7 as stated: pe_ratio is undefined exactly when price <= 0 or
\* last_dividend = 0, and otherwise is the exact ratio price / last_dividend.
C7_PeRatioExact ==
    last.op = "pe_ratio" =>
        /\ PeUndefinedIff
        /\ last.status = "ok" =>
               /\ (last.dec.sign = 1) <=> (PeDividend < 0)
               /\ ScaledError(last.dec, PePrice, PeDividend) = <<0>>

\* C7 as amended: pe_ratio is undefined exactly when price <= 0 or
\* last_dividend = 0, and otherwise is price / last_dividend as a Decimal of
\* at most Prec significant digits: the exact ratio when it has that few
\* digits, else the ratio rounded to Prec digits (within half a unit of the
\* last place); it is not rounded to 2 fractional digits.
C7_PeRatioRoundedToContext ==
    last.op = "pe_ratio" =>
        /\ PeUndefinedIff
        /\ last.status = "ok" =>
               /\ (last.dec.sign = 1) <=> (PeDividend < 0)
               /\ Len(last.dec.digits) <= Prec
               /\ last.dec.digits[1] # 0
               /\ \/ ScaledError(last.dec, PePrice, PeDividend) = <<0>>
                  \/ /\ Len(last.dec.digits) = Prec
                     /\ BigLeq(BigMulSmall(ScaledError(last.dec, PePrice, PeDividend), 2),
                               IntDigits(Abs(PeDividend))
                                   \o Zeros(IF last.dec.exp > 0 THEN last.dec.exp ELSE 0))

\* a pe_ratio was returned whose quotient does not end within Prec digits
C7_Witness ==
    /\ last.op = "pe_ratio"
    /\ last.status = "ok"
    /\ Len(last.dec.digits) = Prec
    /\ ScaledError(last.dec, PePrice, PeDividend) # <<0>>

\* ---- C8 ----------------------------------------------------------------
\* the rate a PreferredStock was created with, as the caller wrote it
RateOf(f) == CHOOSE r \in MetricRates : r.float = f

\* the yield the specification gives, in hundredths of a percent, at price > 0
SpecYieldCents(s, price) ==
    IF s.kind = "CommonStock"
    THEN HalfUp(s.last_dividend_pennies * 100 * 100, price)
    ELSE HalfUp(RateOf(s.fixed_dividend_pct).num * s.par_value_pennies * 100 * 100,
                RateOf(s.fixed_dividend_pct).den * price)

\* C8: dividend_yield(price) always returns a value; it is 0.00 for
\* price <= 0, is >= 0 for price >= 0, and for price > 0 is
\* last_dividend * 100 / price (CommonStock) or
\* fixed_dividend_rate * par_value * 100 / price (PreferredStock), rounded
\* half-up once to 2 fractional digits.
C8_DividendYield ==
    last.op = "dividend_yield" =>
        LET s == heap[last.obj]
            price == last.args[1]
        IN /\ last.status = "ok"
           /\ price <= 0 => last.dec = ZeroCents
           /\ price >= 0 => last.dec.sign = 0
           /\ price > 0 => last.dec = Cents(SpecYieldCents(s, price))

\* ---- C9 ----------------------------------------------------------------
\* C9: every registered Stock has a symbol of 1 to 10 characters,
\* par_value > 0 and last_dividend >= 0, and every PreferredStock a
\* fixed dividend rate in (0, 1].
C9_RegisteredStocksValid ==
    \A o \in Registered(stocks) :
        LET s == heap[o]
        IN /\ Len(s.symbol) >= 1
           /\ Len(s.symbol) <= MaxSymbolLen
           /\ s.par_value_pennies > 0
           /\ s.last_dividend_pennies >= 0
           /\ s.kind = "PreferredStock" =>
                  (FloatPositive(s.fixed_dividend_pct)
                       /\ FloatAtMostOne(s.fixed_dividend_pct))

\* ---- C10 ---------------------------------------------------------------
\* C10: under concurrent callers no step rebinds a registered symbol to
\* another Stock, so no Stock holding trades drops out of the registry.
C10_NoRebindUnderConcurrency ==
    [][ \A sym \in Symbols(stocks) :
            /\ sym \in Symbols(stocks')
            /\ Bound(stocks', sym) = Bound(stocks, sym) ]_vars

====
